---- MODULE Spec2Model ----
(***************************************************************************)
(* Severity-classification-and-routing workflow of the triage chatbot:     *)
(* process_user_input (backend/services.py) driving the LangGraph          *)
(* StateGraph built by main_graph, the four severity nodes, the output     *)
(* parsers, the doctor / facility lookups and the Telegram and web         *)
(* front-ends that call process_user_input and forward its reply.          *)
(*                                                                         *)
(* A turn is one call of process_user_input.  Its position is pc:          *)
(*   idle -> classify -> node -> location -> doctors -> facilities -> done *)
(*        -> delivered                                                      *)
(* every remote call (Gateway, Doctolib, Places) is one step whose outcome *)
(* is chosen by the environment.                                            *)
(*                                                                         *)
(* Specifications:                                                         *)
(*   Spec            turns of the three callers, one at a time, with the   *)
(*                   shared location written at any moment                 *)
(*   FairSpec        Spec with the steps of a started turn taken           *)
(*   TelegramSpec    the Telegram worker: photos, pending images, texts    *)
(*   EnrichmentSpec  the enrichment block of the Moderate node as a        *)
(*                   function of its inputs                                *)
(*   ConcurrentSpec  two threads calling process_user_input in parallel    *)
(***************************************************************************)
EXTENDS Integers, Sequences, FiniteSets, TLC

\* ------------------------------------------------------------------ bounds
MaxTurns == 2
MaxSpecLen == 2
MaxPhotos == 2
MaxListLen == 4
MaxPlaces == 2
MaxHistory == 4

\* ------------------------------------------------------- sampled inputs
ThreadIds == {"chat1", "chat2"}
UserTexts == {"I have a headache", "What causes headaches?"}
ResponseTexts == {"llm response"}
Images == {"img1"}
Photos == {"photo1", "photo2"}
NoImage == "None"
Captions == {"what is this rash?"}
NoCaption == "None"
PhotoOutcomes == {"saved", "download failed", "save failed"}
SharedLocations == {[latitude |-> 48, longitude |-> 2], [latitude |-> 0, longitude |-> 2]}
SpecialistSample == {"cardiologue", "witchcraft", "homeopathe"}
RawSeverities == {"Mild", "Moderate", "Severe", "Other", "Unknown", "mild", "Critical", "None"}
GatewayError == "<gateway error>"
FrontEnds == {"telegram", "web", "api"}

\* ------------------------------------------------------ program constants
NoneCoord == 999
Labels == {"Mild", "Moderate", "Severe", "Other"}
Nodes == {"mild", "moderate", "severe", "other"}
RequiredKeys == <<"thread_id", "checkpoint_ns", "checkpoint_id">>
AllowedSpecialists ==
  {"allergologue", "cardiologue", "dentiste", "dermatologue",
   "masseur-kinesitherapeute", "medecin-generaliste", "ophtalmologue",
   "opticien-lunetier", "orl-oto-rhino-laryngologie", "orthodontiste",
   "osteopathe", "pediatre", "pedicure-podologue", "psychiatre",
   "psychologue", "radiologue", "rhumatologue", "sage-femme"}
MaxSpecializations == 3
MaxDoctorsPerSpecialization == 5
MaxResultCount == 5
FieldMask == {"displayName", "location"}
PlaceRequiredFields == {"id", "formattedAddress", "displayName"}

\* ---------------------------------------------------------------- helpers
Range(s) == {s[i] : i \in 1..Len(s)}

SeqsUpTo(S, n) == UNION {[1..k -> S] : k \in 0..n}

Take(s, n) == IF Len(s) <= n THEN s ELSE SubSeq(s, 1, n)

\* list.remove(x): drops the first occurrence of x
RECURSIVE ListRemove(_, _)
ListRemove(s, x) ==
  IF s = <<>> THEN <<>>
  ELSE IF Head(s) = x THEN Tail(s)
  ELSE <<Head(s)>> \o ListRemove(Tail(s), x)

\* ------------------------------------------------------- message contents
\* A text shown to a user is kept by its parts: the base text, the titles of
\* the "Recommended ..." sections appended to it and, for an error reply, the
\* str(e) interpolated into it.
Text(t) == [text |-> t, sections |-> <<>>, exc |-> <<>>]

WithSections(t, secs) == [text |-> t, sections |-> secs, exc |-> <<>>]

HumanMessage(content) == [role |-> "human", content |-> Text(content)]

AIMessage(content) == [role |-> "ai", content |-> content]

Apology == Text("I apologize, but I couldn't process your request properly.")

ErrorReply(e) ==
  [text |-> "An error occurred while processing your request: ",
   sections |-> <<>>, exc |-> e.args]

PhotoAck ==
  Text("I've received your image. Please provide any additional context or questions about it.")

TelegramErrorText ==
  Text("Sorry, I encountered an error processing your message. Please try again later.")

NoMsg == Text("<nothing sent>")

\* ------------------------------------------------------------- exceptions
Exc(type, args) == [type |-> type, args |-> args]

GatewayFailure == Exc("GoogleAPIError", <<"503 gateway unavailable">>)
ParserFailure == Exc("OutputParserException", <<"Failed to parse output">>)
ClassifyFailure == Exc("ValueError", <<"Failed to classify severity">>)
DoctolibFailure == Exc("RequestException", <<"503 Server Error: doctolib">>)
PlacesFailure == Exc("HTTPError", <<"403 Client Error: places">>)
NoExc == Exc("None", <<>>)

ExceptionSubclasses ==
  {"ValueError", "GoogleAPIError", "OutputParserException", "RequestException", "HTTPError"}

\* ------------------------------------------------------------ configuration
\* A RunnableConfig as validate_config sees it: None, an empty dict, or a dict
\* whose 'configurable' is absent, not a dict, or a dict with some keys.
ValidConfig(t) ==
  [kind |-> "dict", configurable |-> "dict", keys |-> Range(RequiredKeys), thread_id |-> t]

Configs(t) ==
  {[kind |-> "None", configurable |-> "absent", keys |-> {}, thread_id |-> t],
   [kind |-> "empty", configurable |-> "absent", keys |-> {}, thread_id |-> t],
   [kind |-> "dict", configurable |-> "absent", keys |-> {}, thread_id |-> t],
   [kind |-> "dict", configurable |-> "not_dict", keys |-> {}, thread_id |-> t]}
  \cup {[kind |-> "dict", configurable |-> "dict", keys |-> ks, thread_id |-> t] :
          ks \in SUBSET Range(RequiredKeys)}

HasThreadId(config) ==
  config.kind = "dict" /\ config.configurable = "dict" /\ "thread_id" \in config.keys

validate_config_NoKeyCheck(config) ==
  IF config.kind \in {"None", "empty"}
  THEN Exc("ValueError", <<"Config is required for checkpointing">>)
  ELSE NoExc

validate_config(config) ==
  IF config.kind \in {"None", "empty"}
  THEN Exc("ValueError", <<"Config is required for checkpointing">>)
  ELSE IF config.configurable # "dict"
  THEN Exc("ValueError", <<"Config must contain 'configurable' dictionary">>)
  ELSE LET missing_keys == SelectSeq(RequiredKeys, LAMBDA key : key \notin config.keys)
       IN IF missing_keys # <<>>
          THEN Exc("ValueError", <<"Missing required config keys: ">> \o missing_keys)
          ELSE NoExc

\* ChatState.image_data has no reducer: the value of the input replaces the
\* value of the checkpoint, None included
last_value_KeepOnNone(current, update) == IF update = <<>> THEN current ELSE update

last_value(current, update) == update

\* base64.b64encode(image).decode(); None stays None (the empty sequence here)
prepare_image_data(image) == IF image = NoImage THEN <<>> ELSE <<"b64", image>>

\* ------------------------------------------------------------ classification
\* The "before" validator of SeverityClassificationResponse on the raw value
\* of the Severity key ("None" stands for a missing key).
check_valid_severity_NoUnknown(severity) ==
  IF severity \notin {"Mild", "Moderate", "Severe"}
  THEN [ok |-> FALSE, Severity |-> severity]
  ELSE [ok |-> TRUE, Severity |-> severity]

check_valid_severity(severity) ==
  IF severity \notin {"Mild", "Moderate", "Severe", "Other"}
  THEN IF severity = "Unknown"
       THEN [ok |-> TRUE, Severity |-> "Other"]
       ELSE [ok |-> FALSE, Severity |-> severity]
  ELSE [ok |-> TRUE, Severity |-> severity]

\* the Literal[...] field check that follows the validator
SeverityClassificationResponse(raw) ==
  LET values == check_valid_severity(raw)
  IN [ok |-> values.ok /\ values.Severity \in Labels, Severity |-> values.Severity]

format_severity_response(response) == response.Severity

\* classify_severity: any exception of the chain becomes
\* ValueError("Failed to classify severity")
classify_severity_FallbackOther(raw) ==
  LET classification_response == SeverityClassificationResponse(raw)
  IN IF raw # GatewayError /\ classification_response.ok
     THEN [raised |-> FALSE, exc |-> NoExc,
           label |-> format_severity_response(classification_response)]
     ELSE [raised |-> FALSE, exc |-> NoExc, label |-> "Other"]

classify_severity(raw) ==
  IF raw = GatewayError
  THEN [raised |-> TRUE, exc |-> ClassifyFailure, label |-> ""]
  ELSE LET classification_response == SeverityClassificationResponse(raw)
       IN IF classification_response.ok
          THEN [raised |-> FALSE, exc |-> NoExc,
                label |-> format_severity_response(classification_response)]
          ELSE [raised |-> TRUE, exc |-> ClassifyFailure, label |-> ""]

\* the path map of graph.add_conditional_edges(START, classify_severity, {...})
path_map_OtherToMild(label) ==
  CASE label = "Mild" -> "mild"
    [] label = "Moderate" -> "moderate"
    [] label = "Severe" -> "severe"
    [] label = "Other" -> "mild"

path_map(label) ==
  CASE label = "Mild" -> "mild"
    [] label = "Moderate" -> "moderate"
    [] label = "Severe" -> "severe"
    [] label = "Other" -> "other"

\* ------------------------------------------------------------ moderate schema
\* for specialist in recommended_specialists: if not allowed: list.remove(...)
\* The loop walks the list by position while remove() shortens it.
RECURSIVE validate_loop(_, _)
validate_loop(list, i) ==
  IF i > Len(list) THEN list
  ELSE IF list[i] \notin AllowedSpecialists
       THEN validate_loop(ListRemove(list, list[i]), i + 1)
       ELSE validate_loop(list, i + 1)

validate_recommended_specialists(recommended_specialists) ==
  validate_loop(recommended_specialists, 1)

\* ------------------------------------------------------------------ lookups
\* What the Doctolib endpoint answers for one specialization, and what the
\* Places endpoint answers: an HTTP error, or n records.
DoctorCounts == {0, 2}
PlaceCounts == {0, 2}
\* inputs of the enrichment block taken alone: lists longer than the 3
\* specializations queried, answers longer than the 5 doctors kept, and
\* facility records with and without the fields of Place
ListedSpecialists == {"cardiologue", "dentiste"}
ManyDoctorCounts == {0, 2, 6}
PlaceRecords == {FieldMask, PlaceRequiredFields \cup {"location"}}
ApiResponses(counts) ==
  {[status |-> "error", n |-> 0]} \cup {[status |-> "ok", n |-> k] : k \in counts}
NoResponse == [status |-> "none", n |-> 0]

Min(a, b) == IF a <= b THEN a ELSE b

\* response.json()["data"]["doctors"][:5]
DoctorsOf_NoCap(specialization, n) ==
  [k \in 1..n |-> [specialization |-> specialization, rank |-> k]]

DoctorsOf(specialization, n) ==
  [k \in 1..Min(n, MaxDoctorsPerSpecialization) |->
     [specialization |-> specialization, rank |-> k]]

\* the for loop of get_doctors: one request per specialization, in order; a
\* failed request re-raises at once
RECURSIVE get_doctors_loop_KeepCollected(_, _, _, _)
get_doctors_loop_KeepCollected(specializations, doctolib, i, acc) ==
  IF i > Len(specializations)
  THEN [raised |-> FALSE, doctors |-> acc.doctors, requested |-> acc.requested]
  ELSE LET requested == Append(acc.requested, specializations[i])
       IN IF doctolib[i].status = "error"
          THEN [raised |-> FALSE, doctors |-> acc.doctors, requested |-> requested]
          ELSE get_doctors_loop_KeepCollected(specializations, doctolib, i + 1,
                 [doctors |-> acc.doctors \o DoctorsOf(specializations[i], doctolib[i].n),
                  requested |-> requested])

RECURSIVE get_doctors_loop(_, _, _, _)
get_doctors_loop(specializations, doctolib, i, acc) ==
  IF i > Len(specializations)
  THEN [raised |-> FALSE, doctors |-> acc.doctors, requested |-> acc.requested]
  ELSE LET requested == Append(acc.requested, specializations[i])
       IN IF doctolib[i].status = "error"
          THEN [raised |-> TRUE, doctors |-> <<>>, requested |-> requested]
          ELSE get_doctors_loop(specializations, doctolib, i + 1,
                 [doctors |-> acc.doctors \o DoctorsOf(specializations[i], doctolib[i].n),
                  requested |-> requested])

get_doctors(specializations, doctolib) ==
  get_doctors_loop(Take(specializations, MaxSpecializations), doctolib, 1,
                   [doctors |-> <<>>, requested |-> <<>>])

\* find_nearby_facilities: raise_for_status(), then the "places" of the answer,
\* each carrying the fields of the X-Goog-FieldMask and at most maxResultCount
find_nearby_facilities(places_response) ==
  IF places_response.status = "error"
  THEN [raised |-> TRUE, places |-> <<>>]
  ELSE [raised |-> FALSE,
        places |-> [k \in 1..Min(places_response.n, MaxResultCount) |-> FieldMask]]

\* [Place(**place) for place in ...] inside try/except: a record lacking a
\* required field raises, the except sets the listing to ""; the result is
\* the number of entries joined into the listing
facilities_info(places) ==
  IF \A k \in 1..Len(places) : PlaceRequiredFields \subseteq places[k]
  THEN Len(places)
  ELSE 0

\* the if / elif / elif that appends the sections to response_text
append_sections_OneSection(response_text, facility_title, n_facilities, n_doctors) ==
  IF n_facilities > 0
  THEN WithSections(response_text, <<facility_title>>)
  ELSE IF n_doctors > 0
  THEN WithSections(response_text, <<"Recommended Doctors">>)
  ELSE Text(response_text)

append_sections(response_text, facility_title, n_facilities, n_doctors) ==
  IF n_facilities > 0 /\ n_doctors > 0
  THEN WithSections(response_text, <<facility_title, "Recommended Doctors">>)
  ELSE IF n_facilities > 0
  THEN WithSections(response_text, <<facility_title>>)
  ELSE IF n_doctors > 0
  THEN WithSections(response_text, <<"Recommended Doctors">>)
  ELSE Text(response_text)

\* user_location["latitude"] and user_location["longitude"]
Truthy_NoneIsSet(x) == x # 0

Truthy(x) == x # NoneCoord /\ x # 0

\* ------------------------------------------------------------ graph state
\* the add_messages reducer of ChatState.messages
add_messages_Overwrite(left, right) == right

add_messages(left, right) == left \o right

\* get_all_user_messages: f"User Input {i}: {msg.content}" for i, msg in
\* enumerate(messages) if isinstance(msg, HumanMessage); enumerate counts
\* from 0 and over every message
enumerate(list) == [k \in 1..Len(list) |-> [i |-> k - 1, msg |-> list[k]]]

UserInputEntry(i, msg) == [prefix |-> "User Input ", index |-> i, content |-> msg.content]

get_all_user_messages_NoFilter(history) ==
  [j \in 1..Len(history) |-> UserInputEntry(enumerate(history)[j].i, history[j])]

get_all_user_messages(history) ==
  LET kept == SelectSeq(enumerate(history), LAMBDA p : p.msg.role = "human")
  IN [j \in 1..Len(kept) |-> UserInputEntry(kept[j].i, kept[j].msg)]

\* prepare_input_data, and the same dict built inline by classify_severity
\* (the empty image string is the empty sequence here)
prepare_input_data(state_messages, state_image_data) ==
  [user_input |-> state_messages[Len(state_messages)].content,
   chat_history |-> get_all_user_messages(state_messages),
   image |-> IF state_image_data # <<>>
             THEN <<"data:image/jpeg;base64,">> \o state_image_data
             ELSE <<>>]

\* except Exception in process_user_input
Catches_OnlyValueError(e) == e.type = "ValueError"

Catches(e) == e.type \in ExceptionSubclasses

\* the messages of the graph result as (type, content) tuples
formatted_messages(result_messages) ==
  [k \in 1..Len(result_messages) |->
     [role |-> result_messages[k].role, content |-> result_messages[k].content]]

\* the except handler of process_user_input only builds the error reply: the
\* thread's checkpointed messages stay as graph.invoke left them
history_after_except_Recorded(history, e) == Append(history, AIMessage(ErrorReply(e)))

history_after_except(history, e) == history

\* ------------------------------------------------------------------ state
VARIABLES
  messages,        \* thread_id -> checkpointed ChatState.messages
  image_data,      \* thread_id -> checkpointed ChatState.image_data
  user_location,   \* the process-wide backend.user_location dict
  pc,              \* position of the turn in flight
  call,            \* arguments of the process_user_input call and its front-end
  pre,             \* messages of the call's thread when the call was made
  raw_severity,    \* Severity value the Gateway returned to the classifier
  severity,        \* label classify_severity returned ("" when none)
  invoked,         \* severity nodes run in this turn, in order
  response_text,   \* Response of the node's parsed answer
  raw_specialists, \* Recommended_Specialists as the Gateway returned it
  specializations, \* Recommended_Specialists after the validator
  coords,          \* the latitude / longitude locals of the node
  doctolib,        \* Doctolib's answer per requested specialization
  places_api,      \* the Places API's answer
  requests,        \* lookup requests made in this turn, in order
  doctors,         \* list returned by get_doctors
  failed_at,       \* stage that raised ("" when none)
  exc,             \* the exception that reached process_user_input
  result,          \* what process_user_input returned, or that it raised
  sent,            \* what the front-end showed the user for this turn
  turns,           \* calls made so far
  image_context,   \* MessageHandler._image_context: chat id -> pending image
  received,        \* photos downloaded by handle_photo so far: chat and photo
  facilities_response, \* the list find_nearby_facilities returned to the node
  inflight,        \* caller -> its process_user_input call running in parallel
  input_data,      \* the input_data dict built for the prompt templates
  session          \* a web session's location update under way, and the
                   \* coordinates the node's location test has read

store == <<messages, image_data>>
classification == <<raw_severity, severity>>
answer == <<response_text, raw_specialists, specializations>>
enrichment == <<coords, doctolib, places_api, requests, doctors, facilities_response>>
outcome == <<failed_at, exc, result>>
telegram == <<image_context, received>>
vars == <<store, user_location, pc, call, pre, classification, invoked, answer,
          enrichment, outcome, sent, turns, telegram, inflight, input_data, session>>

NoCall == [frontend |-> "", thread |-> "", user_input |-> "",
           config |-> ValidConfig(""), image |-> NoImage]
NoCoords == [latitude |-> NoneCoord, longitude |-> NoneCoord]
NoResult == [returned |-> FALSE, raised |-> FALSE, messages |-> <<>>]
NoSession == [location |-> NoCoords, tested |-> NoCoords]
NoInputData == [user_input |-> Text(""), chat_history |-> <<>>, image |-> <<>>]
Callers == {"caller1", "caller2"}
NoInflight == [at |-> "idle", thread |-> "", user_input |-> "", found |-> <<>>,
               state |-> <<>>]

\* self._image_context[chat_id] = downloaded_file
setitem_KeepFirst(context, key, image) ==
  IF context[key] # NoImage THEN context ELSE [context EXCEPT ![key] = image]

setitem_Everywhere(context, key, image) == [k \in DOMAIN context |-> image]

setitem(context, key, image) == [context EXCEPT ![key] = image]

\* dict.pop(key, None) on the pending images: the entry of the key is gone
pop_Keep(context, key) == context

pop(context, key) == [context EXCEPT ![key] = NoImage]

\* after process_user_input has returned or raised, the handlers send a
\* reply or the error message and leave the pending images as they are
after_reply_Restore(context, turn, failed) ==
  IF failed /\ turn.frontend = "telegram" /\ turn.image # NoImage
  THEN setitem(context, turn.thread, turn.image)
  ELSE context

after_reply(context, turn, failed) == context

Init ==
  /\ messages = [t \in ThreadIds |-> <<>>]
  /\ image_data = [t \in ThreadIds |-> <<>>]
  /\ user_location = [latitude |-> NoneCoord, longitude |-> NoneCoord]
  /\ pc = "idle"
  /\ call = NoCall
  /\ pre = <<>>
  /\ raw_severity = ""
  /\ severity = ""
  /\ invoked = <<>>
  /\ response_text = ""
  /\ raw_specialists = <<>>
  /\ specializations = <<>>
  /\ coords = NoCoords
  /\ doctolib = <<>>
  /\ places_api = NoResponse
  /\ requests = <<>>
  /\ doctors = <<>>
  /\ failed_at = ""
  /\ exc = NoExc
  /\ result = NoResult
  /\ sent = NoMsg
  /\ turns = 0
  /\ image_context = [t \in ThreadIds |-> NoImage]
  /\ received = <<>>
  /\ facilities_response = <<>>
  /\ inflight = [c \in Callers |-> NoInflight]
  /\ input_data = NoInputData
  /\ session = NoSession

\* ---------------------------------------------------------------- outcomes
\* lines 479-511 of process_user_input: the formatted messages of the graph
\* result, else the Response of the first response, else the fixed apology
process_result(result_messages, response) ==
  IF formatted_messages(result_messages) # <<>>
  THEN formatted_messages(result_messages)
  ELSE IF response # ""
  THEN <<AIMessage(Text(response))>>
  ELSE <<AIMessage(Apology)>>

\* An exception e reaches the except of process_user_input at `stage`, the
\* graph having committed `committed` for the call's thread.
Fail(stage, e, committed) ==
  /\ failed_at' = stage
  /\ exc' = e
  /\ result' = IF Catches(e)
               THEN [returned |-> TRUE, raised |-> FALSE,
                     messages |-> <<AIMessage(ErrorReply(e))>>]
               ELSE [returned |-> FALSE, raised |-> TRUE, messages |-> <<>>]
  /\ messages' = [messages EXCEPT ![call.thread] = history_after_except(committed, e)]
  /\ pc' = "done"

\* The node returned ("ai", content): the graph reaches END, the checkpoint
\* gains the message and process_user_input formats the graph result.
Finish_BackToClassify(content) ==
  LET final == add_messages(messages[call.thread], <<AIMessage(content)>>)
  IN /\ messages' = [messages EXCEPT ![call.thread] = final]
     /\ result' = NoResult
     /\ failed_at' = ""
     /\ exc' = NoExc
     /\ pc' = "classify"

Finish(content) ==
  LET final == add_messages(messages[call.thread], <<AIMessage(content)>>)
  IN /\ messages' = [messages EXCEPT ![call.thread] = final]
     /\ result' = [returned |-> TRUE, raised |-> FALSE,
                   messages |-> process_result(final, content.text)]
     /\ failed_at' = ""
     /\ exc' = NoExc
     /\ pc' = "done"

\* ------------------------------------------------------------------ actions
\* process_user_input is entered: validate_config, prepare_image_data.
\* Telegram's handle_text and the web handle_user_input always build a full
\* config; a direct caller ("api") may pass any config.
ProcessUserInput(frontend, t, user_input, config, image) ==
  /\ pc \in {"idle", "delivered"}
  /\ turns < MaxTurns
  /\ turns' = turns + 1
  /\ call' = [frontend |-> frontend, thread |-> t, user_input |-> user_input,
              config |-> config, image |-> image]
  /\ pre' = messages[t]
  /\ raw_severity' = "" /\ severity' = ""
  /\ invoked' = <<>>
  /\ response_text' = "" /\ raw_specialists' = <<>> /\ specializations' = <<>>
  /\ coords' = NoCoords /\ doctolib' = <<>> /\ places_api' = NoResponse
  /\ requests' = <<>> /\ doctors' = <<>> /\ facilities_response' = <<>>
  /\ sent' = NoMsg
  /\ LET e == validate_config(config)
     IN IF e # NoExc
        THEN /\ failed_at' = "config"
             /\ exc' = e
             /\ result' = IF Catches(e)
                          THEN [returned |-> TRUE, raised |-> FALSE,
                                messages |-> <<AIMessage(ErrorReply(e))>>]
                          ELSE [returned |-> FALSE, raised |-> TRUE, messages |-> <<>>]
             /\ pc' = "done"
        ELSE /\ failed_at' = "" /\ exc' = NoExc /\ result' = NoResult
             /\ pc' = "classify"
  /\ input_data' = NoInputData
  /\ UNCHANGED <<store, user_location, inflight, session>>

\* handle_text: image_data = self._image_context.pop(chat_id, None), then
\* process_user_input(text, config=config, image=image_data)
HandleText ==
  \E t \in ThreadIds, u \in UserTexts :
    /\ ProcessUserInput("telegram", t, u, ValidConfig(t), image_context[t])
    /\ image_context' = pop(image_context, t)
    /\ UNCHANGED received

HandleUserInput ==
  \E t \in ThreadIds, u \in UserTexts, image \in Images \cup {NoImage} :
    /\ ProcessUserInput("web", t, u, ValidConfig(t), image)
    /\ UNCHANGED telegram

DirectCall ==
  \E t \in ThreadIds, u \in UserTexts :
    \E config \in Configs(t) :
      /\ ProcessUserInput("api", t, u, config, NoImage)
      /\ UNCHANGED telegram

\* START's conditional edge: classify_severity reads the state with the input
\* applied, asks the Gateway, and its label selects the next node.  When it
\* raises, the START step commits nothing.
ClassifySeverity ==
  /\ pc = "classify"
  /\ \E raw \in RawSeverities \cup {GatewayError} :
       LET r == classify_severity(raw)
           state_messages == add_messages(messages[call.thread],
                                          <<HumanMessage(call.user_input)>>)
           state_image_data == last_value(image_data[call.thread],
                                          prepare_image_data(call.image))
       IN /\ raw_severity' = raw
          /\ input_data' = prepare_input_data(state_messages, state_image_data)
          /\ IF r.raised
             THEN /\ Fail("classify", r.exc, messages[call.thread])
                  /\ UNCHANGED <<severity, image_data>>
             ELSE /\ severity' = r.label
                  /\ messages' = [messages EXCEPT ![call.thread] = state_messages]
                  /\ image_data' = [image_data EXCEPT ![call.thread] = state_image_data]
                  /\ pc' = "node"
                  /\ UNCHANGED outcome
  /\ UNCHANGED <<user_location, call, pre, invoked, answer, enrichment, sent, turns,
                 telegram, inflight, session>>

\* The selected severity node runs its chain (prompt | llm | parser).
SeverityNode ==
  /\ pc = "node"
  /\ LET node == path_map(severity)
     IN /\ invoked' = Append(invoked, node)
        /\ input_data' = prepare_input_data(messages[call.thread], image_data[call.thread])
        /\ \/ \E e \in {GatewayFailure, ParserFailure} :
                /\ Fail("node", e, messages[call.thread])
                /\ UNCHANGED answer
           \/ \E response \in ResponseTexts :
                \E recommended \in IF node = "moderate"
                                   THEN SeqsUpTo(SpecialistSample, MaxSpecLen)
                                   ELSE {<<>>} :
                  /\ response_text' = response
                  /\ raw_specialists' = recommended
                  /\ specializations' = validate_recommended_specialists(recommended)
                  /\ IF node \in {"mild", "other"}
                     THEN Finish(Text(response))
                     ELSE /\ pc' = "location"
                          /\ UNCHANGED <<messages, outcome>>
  /\ UNCHANGED <<image_data, user_location, call, pre, classification, enrichment,
                 sent, turns, telegram, inflight, session>>

\* moderate / severe node: if user_location["latitude"] and
\* user_location["longitude"]: copy them to the locals, else return the
\* response text as it is
CheckLocation ==
  /\ pc = "location"
  /\ IF Truthy(user_location.latitude) /\ Truthy(user_location.longitude)
     THEN /\ coords' = [latitude |-> user_location.latitude,
                        longitude |-> user_location.longitude]
          /\ pc' = "doctors"
          /\ UNCHANGED <<messages, outcome>>
     ELSE /\ Finish(Text(response_text))
          /\ UNCHANGED coords
  /\ UNCHANGED <<image_data, user_location, call, pre, classification, invoked, answer,
                 doctolib, places_api, requests, doctors, facilities_response, sent,
                 turns, telegram, inflight, session,
                 input_data>>

\* get_doctors(specializations, latitude, longitude[, is_urgent=True]); the
\* call stands outside any try of the node.  The environment fixes here what
\* both remote services answer in this turn.
GetDoctors ==
  /\ pc = "doctors"
  /\ LET node == invoked[Len(invoked)]
         asked == IF node = "severe" THEN <<"medecin-generaliste">> ELSE specializations
         n_requests == Len(Take(asked, MaxSpecializations))
     IN \E answers \in [1..n_requests -> ApiResponses(DoctorCounts)],
           places \in ApiResponses(PlaceCounts) :
          LET r == get_doctors(asked, answers)
          IN /\ doctolib' = answers
             /\ places_api' = places
             /\ requests' = requests \o
                  [k \in 1..Len(r.requested) |->
                     [api |-> "doctolib", arg |-> r.requested[k],
                      urgent |-> (node = "severe"), at |-> coords]]
             /\ IF r.raised
                THEN /\ Fail("doctors", DoctolibFailure, messages[call.thread])
                     /\ UNCHANGED doctors
                ELSE /\ doctors' = r.doctors
                     /\ pc' = "facilities"
                     /\ UNCHANGED <<messages, outcome>>
  /\ UNCHANGED <<image_data, user_location, call, pre, classification, invoked, answer,
                 coords, facilities_response, sent, turns, telegram, inflight, session,
                 input_data>>

\* find_nearby_facilities(latitude, longitude, facility_type=...) outside the
\* try, the parsing of its answer inside it, then the sections and the return
FindFacilities ==
  /\ pc = "facilities"
  /\ LET node == invoked[Len(invoked)]
         facility_type == IF node = "severe" THEN "hospital" ELSE "pharmacy"
         title == IF node = "severe" THEN "Recommended Hospitals"
                                     ELSE "Recommended Pharmacies"
         r == find_nearby_facilities(places_api)
     IN /\ requests' = Append(requests,
                         [api |-> "places", arg |-> facility_type,
                          urgent |-> FALSE, at |-> coords])
        /\ facilities_response' = r.places
        /\ IF r.raised
           THEN Fail("facilities", PlacesFailure, messages[call.thread])
           ELSE Finish(append_sections(response_text, title,
                                       facilities_info(r.places), Len(doctors)))
  /\ UNCHANGED <<image_data, user_location, call, pre, classification, invoked, answer,
                 coords, doctolib, places_api, doctors, sent, turns, telegram, inflight, session,
                 input_data>>

\* ------------------------------------------------------------- front-ends
\* handle_text: the first ("ai", non-empty) tuple of the result is sent;
\* otherwise, or when the call raised, _send_error_message
telegram_reply(res) ==
  IF res.raised THEN TelegramErrorText
  ELSE LET ai == SelectSeq(res.messages, LAMBDA m : m.role = "ai" /\ m.content.text # "")
       IN IF ai # <<>> THEN ai[1].content ELSE TelegramErrorText

\* handle_user_input: extract_ai_message(messages[-1]); st.error otherwise
web_reply(res, e) ==
  IF res.raised
  THEN [text |-> "Error processing your request: ", sections |-> <<>>, exc |-> e.args]
  ELSE IF res.messages = <<>> THEN Text("No response generated from the system")
  ELSE LET last == res.messages[Len(res.messages)]
       IN IF last.role = "ai" THEN last.content
          ELSE Text("Unable to process the response")

\* The front-end forwards the reply of the finished call to the user; the
\* locals of the finished call are gone.
Deliver ==
  /\ pc = "done"
  /\ sent' = CASE call.frontend = "telegram" -> telegram_reply(result)
               [] call.frontend = "web" -> web_reply(result, exc)
               [] OTHER -> NoMsg
  /\ pc' = "delivered"
  /\ response_text' = "" /\ raw_specialists' = <<>> /\ specializations' = <<>>
  /\ coords' = NoCoords /\ doctolib' = <<>> /\ places_api' = NoResponse
  /\ requests' = <<>> /\ doctors' = <<>> /\ facilities_response' = <<>>
  /\ image_context' = after_reply(image_context, call, failed_at # "")
  /\ UNCHANGED <<store, user_location, call, pre, classification, invoked, outcome, turns,
                 received, inflight, session, input_data>>

\* handle_location (Telegram) and main (web) store the shared coordinates.
SetLocation ==
  /\ \E location \in SharedLocations :
       user_location' = [latitude |-> location.latitude, longitude |-> location.longitude]
  /\ UNCHANGED <<store, pc, call, pre, classification, invoked, answer, enrichment,
                 outcome, sent, turns, telegram, inflight, session,
                 input_data>>

\* handle_photo: the downloaded photo is stored as the chat's pending image
\* (replacing an earlier one); with a caption the handler pops it again at
\* once and passes it to process_user_input, without one it acknowledges the
\* photo.  A download that raises stores nothing, and writing the file may
\* raise after the photo was stored; both send the error message.
HandlePhoto ==
  /\ pc \in {"idle", "delivered"}
  /\ Len(received) < MaxPhotos
  /\ \E t \in ThreadIds, photo \in Photos, caption \in Captions \cup {NoCaption},
        how \in PhotoOutcomes :
       LET stored == setitem(image_context, t, photo)
           downloaded == how # "download failed"
       IN /\ received' = IF downloaded
                          THEN Append(received, [chat |-> t, photo |-> photo])
                          ELSE received
          /\ IF how = "saved" /\ caption # NoCaption
             THEN /\ ProcessUserInput("telegram", t, caption, ValidConfig(t), stored[t])
                  /\ image_context' = pop(stored, t)
             ELSE
               /\ image_context' = IF downloaded THEN stored ELSE image_context
               /\ sent' = IF how = "saved" THEN PhotoAck ELSE TelegramErrorText
               /\ pc' = "idle"
               /\ call' = NoCall
               /\ pre' = <<>>
               /\ raw_severity' = "" /\ severity' = ""
               /\ invoked' = <<>>
               /\ response_text' = "" /\ raw_specialists' = <<>>
               /\ specializations' = <<>>
               /\ coords' = NoCoords /\ doctolib' = <<>> /\ places_api' = NoResponse
               /\ requests' = <<>> /\ doctors' = <<>> /\ facilities_response' = <<>>
               /\ failed_at' = "" /\ exc' = NoExc /\ result' = NoResult
               /\ input_data' = NoInputData
               /\ UNCHANGED <<store, user_location, turns, inflight, session>>

Next ==
  \/ HandleText
  \/ HandleUserInput
  \/ DirectCall
  \/ ClassifySeverity
  \/ SeverityNode
  \/ CheckLocation
  \/ GetDoctors
  \/ FindFacilities
  \/ Deliver
  \/ SetLocation

Spec == Init /\ [][Next]_vars

\* graph.invoke runs the steps of a turn in the calling thread, one after the
\* other: a step that is due is taken once its remote call returned or raised.
FairSpec ==
  /\ Spec
  /\ WF_vars(ClassifySeverity)
  /\ WF_vars(SeverityNode)
  /\ WF_vars(CheckLocation)
  /\ WF_vars(GetDoctors)
  /\ WF_vars(FindFacilities)

\* The Telegram worker alone, no location shared: photo and text updates of
\* its chats, handled one update at a time.
TelegramNext ==
  \/ HandlePhoto
  \/ HandleText
  \/ ClassifySeverity
  \/ SeverityNode
  \/ CheckLocation
  \/ Deliver

TelegramSpec == Init /\ [][TelegramNext]_vars

\* ------------------------------------------------- the enrichment block
\* The block of moderate_severity_node under the location check, as a
\* function of what it is given: the list of specializations, what Doctolib
\* answers for each queried one, and the list find_nearby_facilities returns.
EnrichmentInit ==
  /\ messages = [t \in ThreadIds |-> <<>>]
  /\ image_data = [t \in ThreadIds |-> <<>>]
  /\ user_location = [latitude |-> 48, longitude |-> 2]
  /\ pc = "enrich"
  /\ call = NoCall
  /\ pre = <<>>
  /\ raw_severity = "Moderate"
  /\ severity = "Moderate"
  /\ invoked = <<"moderate">>
  /\ response_text \in ResponseTexts
  /\ specializations \in SeqsUpTo(ListedSpecialists, MaxListLen)
  /\ raw_specialists = specializations
  /\ coords = [latitude |-> 48, longitude |-> 2]
  /\ doctolib \in [1..Min(Len(specializations), MaxSpecializations)
                     -> ApiResponses(ManyDoctorCounts)]
  /\ places_api = NoResponse
  /\ facilities_response \in SeqsUpTo(PlaceRecords, MaxPlaces)
  /\ requests = <<>>
  /\ doctors = <<>>
  /\ failed_at = ""
  /\ exc = NoExc
  /\ result = NoResult
  /\ sent = NoMsg
  /\ turns = 0
  /\ image_context = [t \in ThreadIds |-> NoImage]
  /\ received = <<>>
  /\ inflight = [c \in Callers |-> NoInflight]
  /\ input_data = NoInputData
  /\ session = NoSession

\* doctors = get_doctors(specializations, latitude, longitude)
EnrichDoctors ==
  /\ pc = "enrich"
  /\ LET r == get_doctors(specializations, doctolib)
     IN /\ requests' = [k \in 1..Len(r.requested) |->
                          [api |-> "doctolib", arg |-> r.requested[k],
                           urgent |-> FALSE, at |-> coords]]
        /\ doctors' = r.doctors
        /\ IF r.raised
           THEN /\ pc' = "raised"
                /\ failed_at' = "doctors"
                /\ exc' = DoctolibFailure
           ELSE /\ pc' = "sections"
                /\ UNCHANGED <<failed_at, exc>>
  /\ UNCHANGED <<store, user_location, call, pre, classification, invoked, answer,
                 coords, doctolib, places_api, facilities_response, result, sent, turns,
                 telegram, inflight, session,
                 input_data>>

\* the Place parsing of the facilities, the sections and the node's return
EnrichSections ==
  /\ pc = "sections"
  /\ result' = [returned |-> TRUE, raised |-> FALSE,
                messages |-> <<AIMessage(
                  append_sections(response_text, "Recommended Pharmacies",
                                  facilities_info(facilities_response), Len(doctors)))>>]
  /\ pc' = "returned"
  /\ UNCHANGED <<store, user_location, call, pre, classification, invoked, answer,
                 enrichment, failed_at, exc, sent, turns, telegram, inflight, session,
                 input_data>>

EnrichmentNext ==
  \/ EnrichDoctors
  \/ EnrichSections

EnrichmentSpec == EnrichmentInit /\ [][EnrichmentNext]_vars

\* ------------------------------------------- location updates in parallel
\* Streamlit runs the script of every browser session in a thread of its own,
\* in the process that holds the user_location dict: main() of one session
\* writes the two coordinates in two statements while the node of another
\* session's turn tests the two coordinates and then reads them again.
SessionLocations == SharedLocations \cup {[latitude |-> 43, longitude |-> 5]}

LocationInit ==
  /\ \E u \in UserTexts :
       /\ messages = [t \in ThreadIds |-> IF t = "chat1" THEN <<HumanMessage(u)>> ELSE <<>>]
       /\ call = [NoCall EXCEPT !.frontend = "web", !.thread = "chat1",
                                !.config = ValidConfig("chat1"), !.user_input = u]
  /\ image_data = [t \in ThreadIds |-> <<>>]
  /\ user_location \in SessionLocations \cup {NoCoords}
  /\ pc = "location"
  /\ pre = <<>>
  /\ severity \in {"Moderate", "Severe"}
  /\ raw_severity = severity
  /\ invoked = <<path_map(severity)>>
  /\ response_text \in ResponseTexts
  /\ raw_specialists = <<>>
  /\ specializations = <<>>
  /\ coords = NoCoords
  /\ doctolib = <<>>
  /\ places_api = NoResponse
  /\ facilities_response = <<>>
  /\ requests = <<>>
  /\ doctors = <<>>
  /\ failed_at = ""
  /\ exc = NoExc
  /\ result = NoResult
  /\ sent = NoMsg
  /\ turns = 0
  /\ image_context = [t \in ThreadIds |-> NoImage]
  /\ received = <<>>
  /\ inflight = [c \in Callers |-> NoInflight]
  /\ input_data = NoInputData
  /\ session = NoSession

\* user_location["latitude"] = st.session_state.location["coords"]["latitude"]
WriteLatitude ==
  /\ session.location = NoCoords
  /\ \E location \in SessionLocations :
       /\ user_location' = [user_location EXCEPT !.latitude = location.latitude]
       /\ session' = [session EXCEPT !.location = location]
  /\ UNCHANGED <<store, pc, call, pre, classification, invoked, answer, enrichment,
                 outcome, sent, turns, telegram, inflight, input_data>>

\* user_location["longitude"] = st.session_state.location["coords"]["longitude"]
WriteLongitude ==
  /\ session.location # NoCoords
  /\ user_location' = [user_location EXCEPT !.longitude = session.location.longitude]
  /\ session' = [session EXCEPT !.location = NoCoords]
  /\ UNCHANGED <<store, pc, call, pre, classification, invoked, answer, enrichment,
                 outcome, sent, turns, telegram, inflight, input_data>>

\* if user_location["latitude"] ...
TestLatitude ==
  /\ pc = "location"
  /\ IF Truthy(user_location.latitude)
     THEN /\ session' = [session EXCEPT !.tested.latitude = user_location.latitude]
          /\ pc' = "test longitude"
          /\ UNCHANGED <<messages, outcome>>
     ELSE /\ Finish(Text(response_text))
          /\ UNCHANGED session
  /\ UNCHANGED <<image_data, user_location, call, pre, classification, invoked, answer,
                 enrichment, sent, turns, telegram, inflight, input_data>>

\* ... and user_location["longitude"]:
TestLongitude ==
  /\ pc = "test longitude"
  /\ IF Truthy(user_location.longitude)
     THEN /\ session' = [session EXCEPT !.tested.longitude = user_location.longitude]
          /\ pc' = "copy latitude"
          /\ UNCHANGED <<messages, outcome>>
     ELSE /\ Finish(Text(response_text))
          /\ UNCHANGED session
  /\ UNCHANGED <<image_data, user_location, call, pre, classification, invoked, answer,
                 enrichment, sent, turns, telegram, inflight, input_data>>

\* latitude = user_location["latitude"]
CopyLatitude ==
  /\ pc = "copy latitude"
  /\ coords' = [coords EXCEPT !.latitude = user_location.latitude]
  /\ pc' = "copy longitude"
  /\ UNCHANGED <<store, user_location, call, pre, classification, invoked, answer,
                 doctolib, places_api, requests, doctors, facilities_response, outcome,
                 sent, turns, telegram, inflight, input_data, session>>

\* longitude = user_location["longitude"]
CopyLongitude ==
  /\ pc = "copy longitude"
  /\ coords' = [coords EXCEPT !.longitude = user_location.longitude]
  /\ pc' = "doctors"
  /\ UNCHANGED <<store, user_location, call, pre, classification, invoked, answer,
                 doctolib, places_api, requests, doctors, facilities_response, outcome,
                 sent, turns, telegram, inflight, input_data, session>>

LocationNext ==
  \/ WriteLatitude
  \/ WriteLongitude
  \/ TestLatitude
  \/ TestLongitude
  \/ CopyLatitude
  \/ CopyLongitude

LocationSpec == LocationInit /\ [][LocationNext]_vars

\* ------------------------------------------------------- the prompt input
\* The input of the prompt templates as a function of the thread state the
\* graph hands to classify_severity and to the node: a history the turns of
\* the graph can have left (each AI message follows the human message it
\* answers), ending with the human message of the running turn.
HistoryMessages ==
  {HumanMessage(u) : u \in UserTexts} \cup {AIMessage(Text(r)) : r \in ResponseTexts}

Histories ==
  {h \in SeqsUpTo(HistoryMessages, MaxHistory) :
     /\ h # <<>>
     /\ h[1].role = "human" /\ h[Len(h)].role = "human"
     /\ \A k \in 1..(Len(h) - 1) : h[k].role = "ai" => h[k + 1].role = "human"}

HistoryInit ==
  /\ \E h \in Histories :
       /\ messages = [t \in ThreadIds |-> IF t = "chat1" THEN h ELSE <<>>]
       /\ call = [NoCall EXCEPT !.frontend = "api", !.thread = "chat1",
                                !.config = ValidConfig("chat1"),
                                !.user_input = h[Len(h)].content.text]
       /\ pre = SubSeq(h, 1, Len(h) - 1)
  /\ \E image \in Images \cup {NoImage} :
       image_data = [t \in ThreadIds |->
                       IF t = "chat1" THEN prepare_image_data(image) ELSE <<>>]
  /\ user_location = [latitude |-> NoneCoord, longitude |-> NoneCoord]
  /\ pc = "classify"
  /\ raw_severity = ""
  /\ severity = ""
  /\ invoked = <<>>
  /\ response_text = ""
  /\ raw_specialists = <<>>
  /\ specializations = <<>>
  /\ coords = NoCoords
  /\ doctolib = <<>>
  /\ places_api = NoResponse
  /\ facilities_response = <<>>
  /\ requests = <<>>
  /\ doctors = <<>>
  /\ failed_at = ""
  /\ exc = NoExc
  /\ result = NoResult
  /\ sent = NoMsg
  /\ turns = 1
  /\ image_context = [t \in ThreadIds |-> NoImage]
  /\ received = <<>>
  /\ inflight = [c \in Callers |-> NoInflight]
  /\ input_data = NoInputData
  /\ session = NoSession

\* classify_severity builds the input of the classification chain
ClassifierInput ==
  /\ pc = "classify"
  /\ input_data' = prepare_input_data(messages[call.thread], image_data[call.thread])
  /\ \E label \in Labels :
       /\ raw_severity' = label
       /\ severity' = classify_severity(label).label
  /\ pc' = "node"
  /\ UNCHANGED <<store, user_location, call, pre, invoked, answer, enrichment, outcome,
                 sent, turns, telegram, inflight, session>>

\* the severity node calls prepare_input_data(chat_state)
PrepareInputData ==
  /\ pc = "node"
  /\ invoked' = <<path_map(severity)>>
  /\ input_data' = prepare_input_data(messages[call.thread], image_data[call.thread])
  /\ pc' = "prepared"
  /\ UNCHANGED <<store, user_location, call, pre, classification, answer, enrichment,
                 outcome, sent, turns, telegram, inflight, session>>

HistoryNext ==
  \/ ClassifierInput
  \/ PrepareInputData

HistorySpec == HistoryInit /\ [][HistoryNext]_vars

\* ------------------------------------------------------ calls in parallel
\* process_user_input holds no lock and calls graph.invoke directly, so calls
\* made by different threads of the process run at the same time.  A graph
\* run reads the thread's checkpoint when it starts, works on its own copy of
\* the state and saves that copy as the thread's checkpoint after each step.
notin_flight == UNCHANGED <<image_data, user_location, pc, call, pre, classification,
                            invoked, answer, enrichment, outcome, sent, turns, telegram,
                            input_data, session>>

InFlight(c) == inflight[c].at \in {"called", "loaded", "node"}

\* a thread of the process enters process_user_input with a valid config
ConcurrentCall ==
  \E c \in Callers, t \in ThreadIds, u \in UserTexts :
    /\ inflight[c].at = "idle"
    /\ validate_config(ValidConfig(t)) = NoExc
    /\ inflight' = [inflight EXCEPT ![c] =
                      [at |-> "called", thread |-> t, user_input |-> u,
                       found |-> <<>>, state |-> <<>>]]
    /\ UNCHANGED messages
    /\ notin_flight

\* graph.invoke starts: the run loads the checkpoint of its thread_id and
\* applies its input to its copy of the state
LoadCheckpoint ==
  \E c \in Callers :
    /\ inflight[c].at = "called"
    /\ inflight' = [inflight EXCEPT
         ![c].at = "loaded",
         ![c].found = messages[inflight[c].thread],
         ![c].state = add_messages(messages[inflight[c].thread],
                                   <<HumanMessage(inflight[c].user_input)>>)]
    /\ UNCHANGED messages
    /\ notin_flight

\* the START step of the run: classification returns a label and the step's
\* state is saved, or it raises and the call returns the error reply
ConcurrentClassify ==
  \E c \in Callers, raw \in {"Mild", GatewayError} :
    /\ inflight[c].at = "loaded"
    /\ IF classify_severity(raw).raised
       THEN /\ inflight' = [inflight EXCEPT ![c].at = "failed"]
            /\ UNCHANGED messages
       ELSE /\ inflight' = [inflight EXCEPT ![c].at = "node"]
            /\ messages' = [messages EXCEPT ![inflight[c].thread] = inflight[c].state]
    /\ notin_flight

\* the severity node of the run returns its ("ai", text) and the final state
\* of the run is saved, or it raises and the call returns the error reply
ConcurrentNode ==
  \E c \in Callers, ok \in BOOLEAN, response \in ResponseTexts :
    /\ inflight[c].at = "node"
    /\ IF ok
       THEN LET final == add_messages(inflight[c].state, <<AIMessage(Text(response))>>)
            IN /\ inflight' = [inflight EXCEPT ![c].at = "returned", ![c].state = final]
               /\ messages' = [messages EXCEPT ![inflight[c].thread] = final]
       ELSE /\ inflight' = [inflight EXCEPT ![c].at = "failed"]
            /\ UNCHANGED messages
    /\ notin_flight

ConcurrentNext ==
  \/ ConcurrentCall
  \/ LoadCheckpoint
  \/ ConcurrentClassify
  \/ ConcurrentNode

ConcurrentSpec == Init /\ [][ConcurrentNext]_vars

\* ==================================================================== claims
Failed == failed_at \in {"classify", "node", "doctors", "facilities"}

Succeeded == pc \in {"done", "delivered"} /\ failed_at = ""

LastMessage(t) == messages[t][Len(messages[t])]

IsPrefix(s, t) == Len(s) <= Len(t) /\ SubSeq(t, 1, Len(s)) = s

\* C1: a turn runs at most one severity node, and the node it runs is the one
\* of the label classification returned: Mild -> mild, Moderate -> moderate,
\* Severe -> severe, Other -> other; every successful turn ran its node; the
\* label-to-node map is one-to-one and onto the four nodes.
C1_ExhaustiveDispatch ==
  /\ Len(invoked) <= 1
  /\ invoked # <<>> =>
       /\ severity \in Labels
       /\ invoked[1] = [Mild |-> "mild", Moderate |-> "moderate",
                        Severe |-> "severe", Other |-> "other"][severity]
  /\ Succeeded => Len(invoked) = 1
  /\ \A a, b \in Labels : path_map(a) = path_map(b) => a = b
  /\ {path_map(a) : a \in Labels} = Nodes

C1_Witness ==
  pc = "done" /\ raw_severity = "Unknown" /\ severity = "Other" /\ invoked = <<"other">>

\* C2: when a turn succeeds, the thread's history is the history the turn
\* found, unchanged and in the same order, followed by the human message and
\* then the AI reply of the turn: it grew by exactly 2.
C2_HistoryAppendOnly ==
  Succeeded =>
    /\ Len(messages[call.thread]) = Len(pre) + 2
    /\ SubSeq(messages[call.thread], 1, Len(pre)) = pre
    /\ messages[call.thread][Len(pre) + 1] = HumanMessage(call.user_input)
    /\ messages[call.thread][Len(pre) + 2].role = "ai"
    /\ pc = "done" => messages[call.thread][Len(pre) + 2].content.text = response_text

C2_Witness ==
  /\ pc = "done" /\ failed_at = ""
  /\ Len(pre) = 2 /\ Len(messages[call.thread]) = 4
  /\ pre[1].content.text # call.user_input

C4_FixedApologyOnFailure ==
  (pc \in {"done", "delivered"} /\ Failed) =>
    /\ result.messages[1].content = Apology
    /\ (pc = "delivered" /\ call.frontend \in {"telegram", "web"}) =>
         sent = Apology /\ sent.exc = <<>>

\* C5: a turn whose classifier or responder (its Gateway call, its doctor or
\* facility lookup) raised still returns normally from process_user_input,
\* and the result holds exactly one message, of role 'ai'.
C5_FailureReturnsOneAiReply ==
  (pc \in {"done", "delivered"} /\ Failed) =>
    /\ result.returned /\ ~result.raised
    /\ Len(result.messages) = 1
    /\ result.messages[1].role = "ai"

C5_Witness ==
  pc = "done" /\ failed_at = "node" /\ exc = GatewayFailure /\ result.returned

LocationUsed == coords # NoCoords

DoctorLookupFails == \E k \in DOMAIN doctolib : doctolib[k].status = "error"

DoctorLookupSucceeds ==
  doctolib # <<>> /\ \A k \in DOMAIN doctolib : doctolib[k].status = "ok"

ReplySections == LastMessage(call.thread).content.sections

\* C7 (as claimed): in a Moderate turn with the location set, when Doctolib
\* fails while the Places API answers with at least one pharmacy, the turn
\* does not fail and its reply has the 'Recommended Pharmacies' section and no
\* 'Recommended Doctors' section.
C7_DoctorFailureIsolated ==
  (/\ pc = "done" /\ invoked = <<"moderate">> /\ LocationUsed
   /\ DoctorLookupFails
   /\ places_api.status = "ok" /\ places_api.n >= 1) =>
    /\ failed_at = ""
    /\ LastMessage(call.thread).role = "ai"
    /\ "Recommended Pharmacies" \in Range(ReplySections)
    /\ "Recommended Doctors" \notin Range(ReplySections)

\* C8 (as claimed): in a Moderate or Severe turn with the location set, when
\* the Places API answers with an HTTP error (the doctor lookup having
\* succeeded), the turn does not fail: its reply is the generated response
\* text, with the doctor section when doctors were found.
C8_FacilityFailureIgnored ==
  (/\ pc = "done" /\ invoked # <<>> /\ invoked[1] \in {"moderate", "severe"}
   /\ LocationUsed /\ DoctorLookupSucceeds
   /\ places_api.status = "error") =>
    /\ failed_at = ""
    /\ LastMessage(call.thread).role = "ai"
    /\ LastMessage(call.thread).content.text = response_text
    /\ doctors # <<>> => "Recommended Doctors" \in Range(ReplySections)

\* C9 (as claimed): whatever list of specialities the Gateway returns for the
\* Moderate schema, the list kept after validation is the allowed values of
\* that list in their original order, and every speciality requested from
\* Doctolib is on the allow-list.
C9_AllowListEnforced ==
  (invoked = <<"moderate">> /\ pc \in {"location", "doctors", "facilities", "done"}
   /\ failed_at # "node") =>
    /\ specializations =
         SelectSeq(raw_specialists, LAMBDA x : x \in AllowedSpecialists)
    /\ \A k \in 1..Len(requests) :
         requests[k].api = "doctolib" => requests[k].arg \in AllowedSpecialists

\* C10: the classifier's label normalisation turns the raw value 'Unknown'
\* into 'Other' without failing, returns 'Mild', 'Moderate', 'Severe' and
\* 'Other' unchanged, and fails classification for every other raw value; a
\* label that classification returns is always one of the four.
C10_LabelNormalisation ==
  /\ severity # "" => severity \in {"Mild", "Moderate", "Severe", "Other"}
  /\ raw_severity # "" =>
       /\ raw_severity = "Unknown" => severity = "Other" /\ failed_at # "classify"
       /\ raw_severity \in {"Mild", "Moderate", "Severe", "Other"} =>
            severity = raw_severity /\ failed_at # "classify"
       /\ raw_severity \notin {"Mild", "Moderate", "Severe", "Other", "Unknown"} =>
            /\ severity = "" /\ failed_at = "classify"
            /\ exc = ClassifyFailure /\ invoked = <<>>

C10_Witness ==
  pc = "node" /\ raw_severity = "Unknown" /\ severity = "Other" /\ failed_at = ""

\* ---------------------------------------------------------- pending images
\* a text message of a Telegram chat starts a turn in this step
TextTurnBegins ==
  turns' = turns + 1 /\ call'.frontend = "telegram" /\ received' = received

\* a photo without caption was stored in this step
PhotoStored ==
  Len(received') = Len(received) + 1 /\ turns' = turns /\ sent' = PhotoAck

\* the photo of the latest photo message of chat t
LastReceived(t) ==
  LET of_t == SelectSeq(received, LAMBDA r : r.chat = t)
  IN IF of_t = <<>> THEN NoImage ELSE of_t[Len(of_t)].photo

\* C11: a text turn of a Telegram chat is given the chat's pending image and
\* leaves the chat without a pending image, so that a text turn that follows
\* a turn of the same chat with no photo in between is given no image; the
\* image a running turn was given is the image its thread state holds.
C11_PendingImageConsumedOnce ==
  /\ [][TextTurnBegins =>
          /\ call'.image = image_context[call'.thread]
          /\ image_context'[call'.thread] = NoImage
          /\ (pc = "delivered" /\ call.frontend = "telegram"
                /\ call.thread = call'.thread) => call'.image = NoImage]_vars
  /\ []((call.frontend = "telegram" /\ pc \in {"classify", "node", "location"})
          => image_context[call.thread] = NoImage)
  /\ []((pc \in {"node", "location"} \/ Succeeded)
          => image_data[call.thread] = prepare_image_data(call.image))

C11_Witness ==
  /\ pc = "classify" /\ turns = 2 /\ call.frontend = "telegram"
  /\ call.user_input \in UserTexts /\ call.image = NoImage
  /\ Len(received) = 1 /\ received[1].chat = call.thread
  /\ Len(messages[call.thread]) = 2
  /\ messages[call.thread][1].content.text \in UserTexts
  /\ image_data[call.thread] = prepare_image_data(received[1].photo)

\* C12: a chat holds at most one pending image, and it is none or the photo
\* of the chat's latest photo message; a photo stored without caption
\* replaces whatever was pending for its chat (last write wins), and a text
\* turn is given exactly the image pending for its chat.
C12_LastWriteWins ==
  /\ [](\A t \in ThreadIds :
          /\ image_context[t] \in Photos \cup {NoImage}
          /\ image_context[t] \in {NoImage, LastReceived(t)})
  /\ [][PhotoStored =>
          LET r == received'[Len(received')]
          IN /\ image_context'[r.chat] = r.photo
             /\ \A t \in ThreadIds \ {r.chat} : image_context'[t] = image_context[t]]_vars
  /\ [][TextTurnBegins => call'.image = image_context[call'.thread]]_vars

C12_Witness ==
  /\ pc = "classify" /\ turns = 1 /\ call.frontend = "telegram"
  /\ call.user_input \in UserTexts
  /\ received = <<[chat |-> call.thread, photo |-> "photo1"],
                  [chat |-> call.thread, photo |-> "photo2"]>>
  /\ call.image = "photo2"

\* ------------------------------------------------------- calls in parallel
\* C13 (as claimed): no two calls are in flight on one thread_id at a time,
\* and when two calls on the same thread_id have both succeeded the thread's
\* history holds both human/AI pairs, one pair after the other: its length is
\* the sum of the appends of the two calls.
C13_CallsSerialised ==
  \A c, d \in Callers :
    c # d /\ inflight[c].thread = inflight[d].thread =>
      /\ ~(InFlight(c) /\ InFlight(d))
      /\ (inflight[c].at = "returned" /\ inflight[d].at = "returned") =>
           /\ Len(messages[inflight[c].thread]) = 4
           /\ \/ messages[inflight[c].thread] =
                   inflight[c].state \o SubSeq(inflight[d].state, 3, 4)
              \/ messages[inflight[c].thread] =
                   inflight[d].state \o SubSeq(inflight[c].state, 3, 4)

\* ------------------------------------------------------------ the location
\* the shared location holds coordinates (it is not the initial None pair)
LocationSet ==
  user_location.latitude # NoneCoord /\ user_location.longitude # NoneCoord

\* the location check of a Moderate or Severe node is made in this step
LocationChecked == pc = "location" /\ pc' # "location"

\* C14 (as claimed): once any conversation has set the shared location, every
\* Moderate or Severe turn that checks it afterwards, of whatever thread_id,
\* goes on to its lookups with exactly those coordinates.
C14_LocationSharedByAll ==
  [][(LocationChecked /\ LocationSet) =>
       /\ pc' = "doctors"
       /\ coords' = user_location]_vars

\* ------------------------------------------------------------ graph paths
\* the turn is inside its severity node
InNode == pc \in {"node", "location", "doctors", "facilities"}

\* the graph run of the turn reached END
ReachedEND == pc \in {"done", "delivered"} /\ failed_at = ""

\* C15: a turn goes from START to classification, from classification to the
\* one severity node of its label and from that node to END: inside a node no
\* step returns to classification or enters another node, END is reached only
\* from a node, with exactly one node run; and every turn that started
\* eventually ends, at END unless one of its calls raised.
C15_TurnPath ==
  /\ [][/\ pc = "classify" => pc' \in {"classify", "node", "done"}
        /\ (pc = "node" /\ pc' # "node") => invoked' = <<path_map(severity)>>
        /\ InNode =>
             /\ pc' \in {"node", "location", "doctors", "facilities", "done"}
             /\ raw_severity' = raw_severity /\ severity' = severity
             /\ Len(invoked') <= 1
             /\ pc # "node" => invoked' = invoked
        /\ (pc # "done" /\ pc' = "done" /\ failed_at' = "") => InNode]_vars
  /\ [](ReachedEND => Len(invoked) = 1 /\ severity \in Labels)
  /\ (pc = "classify") ~> (pc = "done" /\ (failed_at = "" \/ Failed))

C15_Witness ==
  /\ pc = "done" /\ failed_at = "" /\ invoked = <<"severe">>
  /\ Len(requests) = 2 /\ Len(messages[call.thread]) = 4

\* C16: when the shared location still holds its initial None pair at the
\* location check of a Moderate or Severe node, the turn ends at once and
\* without failure: no doctor or facility lookup was made, and the reply
\* recorded and returned is the model's response text with no section.
C16_NoLocationNoEnrichment ==
  [][(LocationChecked /\ user_location = NoCoords) =>
       /\ pc' = "done" /\ failed_at' = ""
       /\ requests' = <<>> /\ coords' = NoCoords
       /\ messages'[call.thread] =
            Append(messages[call.thread], AIMessage(Text(response_text)))
       /\ result'.returned /\ ~result'.raised
       /\ result'.messages[Len(result'.messages)] = AIMessage(Text(response_text))]_vars

C16_Witness ==
  /\ pc = "done" /\ failed_at = "" /\ user_location = NoCoords
  /\ invoked = <<"moderate">> /\ specializations # <<>>
  /\ requests = <<>>
  /\ LastMessage(call.thread) = AIMessage(Text(response_text))

\* ---------------------------------------------------- the enrichment block
\* the pharmacies listing is not empty: some record came back and every
\* record has the fields Place requires
PharmaciesListed ==
  /\ facilities_response # <<>>
  /\ \A k \in 1..Len(facilities_response) :
       PlaceRequiredFields \subseteq facilities_response[k]

NodeReply == result.messages[1].content

\* C17: whatever listings the Moderate node has built, its reply keeps the
\* model's response text as it is and appends to it the "Recommended
\* Pharmacies" section exactly when the pharmacies listing is not empty and
\* the "Recommended Doctors" section exactly when the doctors listing is not
\* empty, the pharmacies before the doctors, and nothing else.
C17_SectionsFollowListings ==
  pc = "returned" =>
    /\ NodeReply.text = response_text
    /\ NodeReply.exc = <<>>
    /\ NodeReply.sections =
         (IF PharmaciesListed THEN <<"Recommended Pharmacies">> ELSE <<>>)
         \o (IF doctors # <<>> THEN <<"Recommended Doctors">> ELSE <<>>)

C17_Witness ==
  /\ pc = "returned" /\ PharmaciesListed /\ doctors # <<>>
  /\ NodeReply.sections = <<"Recommended Pharmacies", "Recommended Doctors">>

\* the specializations requested from Doctolib, in request order
Queried == [k \in 1..Len(requests) |-> requests[k].arg]

\* the doctors of the first k queried specializations, at most
\* MaxDoctorsPerSpecialization of each, one specialization after the other
RECURSIVE Flattened(_)
Flattened(k) ==
  IF k = 0 THEN <<>>
  ELSE Flattened(k - 1) \o
       [j \in 1..Min(doctolib[k].n, MaxDoctorsPerSpecialization) |->
          [specialization |-> specializations[k], rank |-> j]]

\* C20: for a list of specializations of any length get_doctors requests the
\* first 3 of the list, in the order of the list, and nothing else; when it
\* returns, its result is the first 5 doctors of each requested
\* specialization, flattened in request order, hence at most 15 entries and
\* at most 5 x min(3, length of the list).
C20_DoctorsCapped ==
  pc \in {"sections", "returned", "raised"} =>
    /\ IsPrefix(Queried, specializations)
    /\ Len(Queried) <= 3
    /\ pc # "raised" =>
         /\ Len(Queried) = Min(3, Len(specializations))
         /\ doctors = Flattened(Len(Queried))
    /\ Len(doctors) <= 15
    /\ Len(doctors) <= 5 * Min(3, Len(specializations))

C20_Witness ==
  /\ pc = "sections" /\ Len(specializations) = 4
  /\ Len(Queried) = 3 /\ Queried = SubSeq(specializations, 1, 3)
  /\ \A k \in 1..3 : doctolib[k].n = 6
  /\ Len(doctors) = 15

\* ------------------------------------------------------------- enrichment
\* the lookup requests of the turn made to one service
RequestsTo(api) == SelectSeq(requests, LAMBDA r : r.api = api)

\* every facility record has the fields the lookup asks the Places API for
RecordsAsRequested ==
  \A k \in 1..Len(facilities_response) : facilities_response[k] = FieldMask

\* C18 (as claimed): in a Moderate turn with the location set, when Doctolib
\* returns at least one doctor and the Places API at least one pharmacy, each
\* record with the fields the lookup requests, the reply has both the
\* "Recommended Pharmacies" and the "Recommended Doctors" section.
C18_BothSectionsListed ==
  (/\ pc = "done" /\ invoked = <<"moderate">> /\ LocationUsed
   /\ DoctorLookupSucceeds /\ doctors # <<>>
   /\ places_api.status = "ok" /\ facilities_response # <<>>
   /\ RecordsAsRequested) =>
    /\ failed_at = ""
    /\ "Recommended Pharmacies" \in Range(ReplySections)
    /\ "Recommended Doctors" \in Range(ReplySections)

\* C19 (as claimed): a Severe turn with the location set makes exactly one
\* doctor request, for "medecin-generaliste" with the urgent flag, and one
\* facility request of type "hospital", both at the location; its reply has
\* the "Recommended Hospitals" section, when hospitals are listed, before the
\* "Recommended Doctors" section, when doctors are listed, and no other.
C19_SevereLookups ==
  (pc = "done" /\ invoked = <<"severe">> /\ LocationUsed) =>
    /\ RequestsTo("doctolib") =
         <<[api |-> "doctolib", arg |-> "medecin-generaliste",
            urgent |-> TRUE, at |-> coords]>>
    /\ RequestsTo("places") =
         <<[api |-> "places", arg |-> "hospital", urgent |-> FALSE, at |-> coords]>>
    /\ failed_at = "" =>
         ReplySections =
           (IF PharmaciesListed THEN <<"Recommended Hospitals">> ELSE <<>>)
           \o (IF doctors # <<>> THEN <<"Recommended Doctors">> ELSE <<>>)

\* ---------------------------------------------------------------- delivery
\* C21 (as claimed): the reply a front-end shows the user for a turn that
\* succeeded is the AI message that turn appended to its thread, the last
\* message of the thread, whatever the thread held before.
C21_ReplyIsThisTurnsAnswer ==
  (pc = "delivered" /\ call.frontend \in {"telegram", "web"} /\ failed_at = "") =>
    /\ LastMessage(call.thread).role = "ai"
    /\ sent = LastMessage(call.thread).content

\* ------------------------------------------------------------- sequencing
\* a severity node starts in this step
ResponderStarts == invoked' # invoked /\ invoked' # <<>>

\* the Gateway failed or answered with a value that is no label
ClassificationFailed ==
  raw_severity # "" /\ raw_severity \notin Labels \cup {"Unknown"}

\* C23: a responder starts only in a state where classification has already
\* returned its label, and that label is the one it answers for; in a turn
\* whose classification failed, by a Gateway error or an invalid label, no
\* responder runs, no response is generated and no lookup is made.
C23_ClassifyThenRespond ==
  /\ [][ResponderStarts =>
          /\ pc = "node" /\ severity \in Labels
          /\ severity' = severity
          /\ invoked' = <<path_map(severity)>>]_vars
  /\ []((InNode \/ invoked # <<>> \/ requests # <<>>) => severity \in Labels)
  /\ [](ClassificationFailed =>
          /\ failed_at = "classify" /\ severity = ""
          /\ pc \in {"done", "delivered"}
          /\ invoked = <<>> /\ response_text = ""
          /\ requests = <<>> /\ doctors = <<>> /\ coords = NoCoords)

C23_Witness ==
  /\ pc = "done" /\ failed_at = "classify" /\ raw_severity = "Critical"
  /\ Truthy(user_location.latitude) /\ Truthy(user_location.longitude)
  /\ invoked = <<>> /\ requests = <<>>

\* ----------------------------------------------------------- prompt input
\* the thread state of the running turn and the positions of its human messages
TurnHistory == messages[call.thread]

HumanPositions == {k \in 1..Len(TurnHistory) : TurnHistory[k].role = "human"}

\* C24: the chat_history built for the classifier and for the responder has
\* one entry per human message of the thread state and none for an AI
\* message, in the order of the history; each entry is "User Input ", the
\* position of its message in the whole history counted from 0, and the
\* content of the message; user_input is the content of the last message.
C24_ChatHistoryOfHumanMessages ==
  pc \in {"node", "prepared"} =>
    LET chat_history == input_data.chat_history
    IN /\ Len(chat_history) = Cardinality(HumanPositions)
       /\ \A j \in 1..Len(chat_history) :
            /\ chat_history[j].prefix = "User Input "
            /\ chat_history[j].index + 1 \in HumanPositions
            /\ chat_history[j].content = TurnHistory[chat_history[j].index + 1].content
            /\ j > 1 => chat_history[j - 1].index < chat_history[j].index
       /\ input_data.user_input = TurnHistory[Len(TurnHistory)].content

C24_Witness ==
  /\ pc = "prepared" /\ Len(TurnHistory) = 3
  /\ TurnHistory[2].role = "ai"
  /\ Len(input_data.chat_history) = 2
  /\ input_data.chat_history[1].index = 0
  /\ input_data.chat_history[2].index = 2
  /\ input_data.chat_history[2].content = input_data.user_input

\* -------------------------------------------------------- state per thread
\* the pending image or the thread state of chat t changes in this step
ThreadChanged(t) ==
  \/ image_context'[t] # image_context[t]
  \/ messages'[t] # messages[t]
  \/ image_data'[t] # image_data[t]

\* C25: a step (photo, start of a turn, graph step, failure) changes the
\* pending image and the thread state of at most one chat, the chat of the
\* running turn when there is one; the image a Telegram turn is given is the
\* photo last received on the turn's own chat.
C25_ThreadsPartitioned ==
  /\ [][\A a \in ThreadIds :
          ThreadChanged(a) =>
            /\ \A b \in ThreadIds \ {a} : ~ThreadChanged(b)
            /\ call'.thread # "" => a = call'.thread]_vars
  /\ []((call.frontend = "telegram" /\ call.image # NoImage)
          => call.image = LastReceived(call.thread))

C25_Witness ==
  /\ pc = "delivered" /\ call.frontend = "telegram" /\ call.thread = "chat1"
  /\ failed_at # "" /\ call.image = "photo1"
  /\ image_context["chat2"] = "photo2"
  /\ Len(messages["chat2"]) = 2

\* ------------------------------------------------------ image of the turn
\* the image field of the prompt input for the image a turn was submitted with
ImageField(image) ==
  IF image = NoImage THEN <<>> ELSE <<"data:image/jpeg;base64,", "b64", image>>

\* C26: the classifier and the responder of a turn are given the image the
\* turn was submitted with and no other: the empty image field when the turn
\* has no image, whatever image_data the thread state held from earlier
\* turns; a classified turn leaves its own image_data in the thread state.
C26_ImageOfThisTurnOnly ==
  /\ raw_severity # "" => input_data.image = ImageField(call.image)
  /\ severity # "" => image_data[call.thread] = prepare_image_data(call.image)

C26_Witness ==
  /\ pc = "delivered" /\ failed_at = "" /\ turns = 2
  /\ call.frontend = "telegram" /\ call.image = NoImage
  /\ Len(received) = 1 /\ received[1].chat = call.thread
  /\ Len(pre) = 2 /\ Len(messages[call.thread]) = 4
  /\ invoked # <<>> /\ input_data.image = <<>> /\ image_data[call.thread] = <<>>

\* ------------------------------------------------------ zero coordinates
\* C27 (as claimed): whatever pair of coordinates was shared, zeros included,
\* a Moderate or Severe node that checks the location while it holds that pair
\* goes on to its lookups with the pair.
C27_ZeroCoordinateIsSet ==
  [][\A location \in SharedLocations :
       (LocationChecked /\ user_location.latitude = location.latitude
                        /\ user_location.longitude = location.longitude) =>
         /\ pc' = "doctors"
         /\ coords'.latitude = location.latitude
         /\ coords'.longitude = location.longitude]_vars

\* ------------------------------------------- location updates in parallel
\* C28 (as claimed): the pair a Moderate or Severe node passes to its
\* lookups is the pair of one location update, never the latitude of one
\* update with the longitude of another, and it is the pair the location
\* test of the node has read.
C28_LookupsUseOneUpdate ==
  pc = "doctors" =>
    /\ coords \in SessionLocations
    /\ coords = session.tested

\* ------------------------------------------------------ the doctor lookup
\* the request for the k-th queried specialization failed
RequestFailed(k) == doctolib[k].status = "error"

\* C29: get_doctors raises exactly when the request of one of the (at most 3)
\* specializations it queries fails; it then stops at that request and hands
\* over none of the doctors collected from the requests before it.  It
\* returns a list only when every queried specialization was requested and
\* every request succeeded.
C29_DoctorsAllOrNothing ==
  pc \in {"sections", "returned", "raised"} =>
    /\ pc = "raised" <=> \E k \in DOMAIN doctolib : RequestFailed(k)
    /\ pc = "raised" =>
         /\ doctors = <<>>
         /\ result = NoResult
         /\ RequestFailed(Len(requests))
         /\ \A k \in 1..(Len(requests) - 1) : ~RequestFailed(k)
    /\ pc # "raised" =>
         /\ Len(requests) = Len(doctolib)
         /\ \A k \in 1..Len(requests) : ~RequestFailed(k)

C29_Witness ==
  /\ pc = "raised" /\ Len(specializations) = 3 /\ Len(requests) = 2
  /\ doctolib[1] = [status |-> "ok", n |-> 2]
  /\ RequestFailed(2) /\ ~RequestFailed(3)
  /\ doctors = <<>>

\* ------------------------------------------------- image of a failed turn
\* C30: when a Telegram turn has failed, its chat has no pending image, also
\* when the turn was given one, and the handler's reply leaves it so: a text
\* turn of the same chat that follows the failed turn is given no image.
C30_FailedTurnLosesImage ==
  /\ []((call.frontend = "telegram" /\ failed_at # "" /\ pc \in {"done", "delivered"})
          => image_context[call.thread] = NoImage)
  /\ [][(/\ pc = "delivered" /\ call.frontend = "telegram" /\ failed_at # ""
          /\ TextTurnBegins /\ call'.thread = call.thread)
          => call'.image = NoImage]_vars

C30_Witness ==
  /\ pc = "classify" /\ turns = 2 /\ call.frontend = "telegram"
  /\ call.user_input \in UserTexts /\ call.image = NoImage
  /\ Len(received) = 1 /\ received[1].chat = call.thread
  /\ Len(pre) = 1 /\ image_data[call.thread] = prepare_image_data(received[1].photo)
  /\ image_context[call.thread] = NoImage

====
